---- MODULE Spec2Model ----
(***************************************************************************)
(* Model of Tools/git_commit_agent.py: the command-line entry point main,  *)
(* the message generator generate_commit_message with its retry loop, the  *)
(* interactive branch menu and the auto-commit path.                       *)
(*                                                                         *)
(* Text is modelled as a sequence of one-character strings, so that        *)
(* str.strip, str.lower and int() are computed and not assumed.  The       *)
(* outcomes of git, of the remote API, of the terminal and of the file     *)
(* system are nondeterministic choices made by the step that observes      *)
(* them.                                                                   *)
(*                                                                         *)
(* Spec is a run of main.  The other specifications call one function on   *)
(* its own: the branch menu (SpecSelect), load_config (SpecConfig),        *)
(* get_branch_diff (SpecDiff), get_staged_changes (SpecStaged), the diff   *)
(* truncation (SpecTruncate), parse_tracking_info (SpecTrack), the file    *)
(* statistics (SpecStats) and generate_commit_message (SpecGen).           *)
(***************************************************************************)
EXTENDS Integers, Sequences, FiniteSets, TLC

VARIABLES
    args,             \* parsed command line: staged, branch, auto_commit, json
    api_key,          \* ANTHROPIC_API_KEY as read from the environment
    refs,             \* local branches of the repository, in listing order
    pc,               \* position of the run in main / its callees
    ret,              \* where generate_commit_message returns to
    exit_code,        \* process exit status, Running while the run is alive
    stdout,           \* kinds of the lines written to standard output
    stderr,           \* kinds of the lines written to standard error
    config,           \* the loaded Config
    branch_info,      \* the BranchInfo under consideration, or NoneVal
    commit_message,   \* result of the last generate_commit_message call
    attempt,          \* loop variable of the retry loop
    gen_log,          \* per attempt of the current call: API outcome and sleep
    gen_calls,        \* number of generate_commit_message calls so far
    api_requests,     \* number of client.messages.create requests so far
    branches,         \* result of get_all_branches_with_status
    scan_idx,         \* position of the JSON scan loop in branches
    scanned,          \* names handed to get_branch_diff by the JSON scan loop
    results,          \* the JSON scan result list
    selected_branch,  \* result of interactive_select_branch
    prompts,          \* inputs read by interactive_select_branch so far
    choice,           \* the input interactive_select_branch read last
    confirm,          \* the answer to the commit prompt, raw and normalised
    temp_file,        \* the temporary commit-message file
    commits,          \* texts of the commits authored by the run
    call              \* a function called on its own: arguments and result

vars == <<call, args, api_key, refs, pc, ret, exit_code, stdout, stderr, config,
          branch_info, commit_message, attempt, gen_log, gen_calls,
          api_requests, branches, scan_idx, scanned, results,
          selected_branch, prompts, choice, confirm, temp_file, commits>>

(***************************************************************************)
(* Bounds of the model.                                                    *)
(***************************************************************************)
MaxBranches == 2        \* local branches in the repository
MaxRetryOverride == 2   \* largest max_retries a settings file sets
MaxPrompts == 2         \* invalid menu inputs before a deciding one

(***************************************************************************)
(* Values.                                                                 *)
(***************************************************************************)
NoneVal == "None"
Unread == "unread"
Running == -1
ExitInterrupt == 130

\* temperature 0.7 is held as a fraction.
DEFAULT_CONFIG ==
    [max_diff_chars |-> 50000,
     model |-> "claude-sonnet-4-5-20250929",
     temperature |-> [num |-> 7, den |-> 10],
     max_retries |-> 3,
     commit_types |-> <<"feat", "fix", "docs", "style", "refactor",
                        "test", "chore", "perf", "ci", "build">>]

AllNames == <<"b1", "b2", "b3", "b4">>
BranchNames == {AllNames[i] : i \in 1..MaxBranches}
NameIdx(n) == CHOOSE i \in 1..Len(AllNames) : AllNames[i] = n

SeqsUpTo(S, n) == UNION {[1..k -> S] : k \in 0..n}

None == <<>>
Some(x) == <<x>>

\* The value of call while main runs: no function is called on its own.
NoCall == [fn |-> "main"]

(***************************************************************************)
(* Text helpers: str.strip, str.lower and int(str) on character sequences. *)
(***************************************************************************)
IsSpace(c) == c = " "

RECURSIVE LStrip(_)
LStrip(s) ==
    IF s = <<>> THEN s
    ELSE IF IsSpace(Head(s)) THEN LStrip(Tail(s)) ELSE s

RECURSIVE RStrip(_)
RStrip(s) ==
    IF s = <<>> THEN s
    ELSE IF IsSpace(s[Len(s)]) THEN RStrip(SubSeq(s, 1, Len(s) - 1)) ELSE s

Strip(s) == RStrip(LStrip(s))

LowerChar(c) ==
    CASE c = "Y" -> "y" [] c = "N" -> "n" [] c = "E" -> "e" [] c = "S" -> "s"
      [] OTHER -> c

Lower(s) == [i \in 1..Len(s) |-> LowerChar(s[i])]

DigitChars == <<"0", "1", "2", "3", "4", "5", "6", "7", "8", "9">>

Digits == {DigitChars[i] : i \in 1..10}

DigitVal(c) == CHOOSE v \in 0..9 : DigitChars[v + 1] = c

RECURSIVE DigitsValue(_)
DigitsValue(t) ==
    IF t = <<>> THEN 0
    ELSE DigitsValue(SubSeq(t, 1, Len(t) - 1)) * 10 + DigitVal(t[Len(t)])

AllDigits(t) == t # <<>> /\ \A i \in 1..Len(t) : t[i] \in Digits

\* The longest run of digits of s that starts at position j: what (\d+)
\* takes there.
RECURSIVE DigitRun(_, _)
DigitRun(s, j) ==
    IF j <= Len(s) /\ s[j] \in Digits
    THEN <<s[j]>> \o DigitRun(s, j + 1) ELSE <<>>

StartsWithAt(s, i, w) ==
    /\ i + Len(w) - 1 <= Len(s)
    /\ SubSeq(s, i, i + Len(w) - 1) = w

\* int(choice): surrounding whitespace is ignored, one optional sign, then
\* decimal digits; anything else raises ValueError (ok = FALSE).
ParseInt(s) ==
    LET t == Strip(s) IN
    IF t # <<>> /\ Head(t) \in {"-", "+"}
    THEN IF AllDigits(Tail(t))
         THEN [ok |-> TRUE,
               val |-> IF Head(t) = "-" THEN 0 - DigitsValue(Tail(t))
                       ELSE DigitsValue(Tail(t))]
         ELSE [ok |-> FALSE, val |-> 0]
    ELSE IF AllDigits(t)
         THEN [ok |-> TRUE, val |-> DigitsValue(t)]
         ELSE [ok |-> FALSE, val |-> 0]

\* str(n) for an integer n, as in an f-string: decimal, "-" for negatives.
RECURSIVE NatStr(_)
NatStr(n) ==
    IF n < 10 THEN <<DigitChars[n + 1]>>
    ELSE Append(NatStr(n \div 10), DigitChars[(n % 10) + 1])

Str(n) == IF n < 0 THEN <<"-">> \o NatStr(0 - n) ELSE NatStr(n)

(***************************************************************************)
(* Inputs the environment can supply.                                      *)
(***************************************************************************)
\* Lines typed at the "Commit with this message? [y/N]" prompt.
Answers ==
    {<<>>, <<" ">>, <<"y">>, <<"Y">>, <<" ", "y", " ">>, <<"Y", " ">>,
     <<"n">>, <<"N">>, <<"y", "y">>, <<"y", " ", "y">>, <<"Y", "E", "S">>}

\* Lines typed at the branch menu.
Choices ==
    {<<>>, <<" ">>, <<"x">>, <<"-">>, <<"1", "x">>, <<"1", " ", "2">>,
     <<"0">>, <<" ", "0", " ">>, <<"-", "0">>, <<"0", "0">>,
     <<"1">>, <<" ", "1">>, <<"0", "1">>, <<"+", "1">>,
     <<"2">>, <<"2", " ">>, <<"3">>, <<"-", "1">>, <<"1", "2">>,
     <<"3", "3">>}

\* Texts the API can return as the first content block.
ResponseTexts == {<<" ">>, <<"f">>, <<" ", "g", " ">>}

\* Outcomes of one client.messages.create request.
ApiOutcomes ==
    {[kind |-> k, text |-> <<>>] :
        k \in {"rate_limit", "api_error", "exception", "empty_content"}}
    \cup {[kind |-> "content", text |-> t] : t \in ResponseTexts}

\* How far a branch is from its upstream, as a list of (word, number)
\* tokens: <<>> for a branch level with it, <<Tok("ahead", 1)>>,
\* <<Tok("behind", 1), Tok("ahead", 2)>>.
Tok(w, n) == [word |-> w, num |-> n]

WordChars(w) ==
    IF w = "ahead" THEN <<"a", "h", "e", "a", "d">>
    ELSE <<"b", "e", "h", "i", "n", "d">>

\* The text %(upstream:track) prints for the tokens: "", "[ahead 1]",
\* "[behind 1, ahead 2]".
RECURSIVE JoinTokens(_)
JoinTokens(tokens) ==
    IF tokens = <<>> THEN <<>>
    ELSE WordChars(Head(tokens).word) \o <<" ">> \o Str(Head(tokens).num)
         \o (IF Tail(tokens) = <<>> THEN <<>>
             ELSE <<",", " ">> \o JoinTokens(Tail(tokens)))

TrackText(tokens) ==
    IF tokens = <<>> THEN <<>>
    ELSE <<"[">> \o JoinTokens(tokens) \o <<"]">>

TrackInfos == {<<>>, <<Tok("behind", 1), Tok("ahead", 2)>>}

\* A local branch: without upstream there is no tracking annotation.
RefRecords ==
    {[name |-> n, upstream |-> NoneVal, track |-> <<>>] : n \in BranchNames}
    \cup {[name |-> n, upstream |-> "origin/main", track |-> t] :
            n \in BranchNames, t \in TrackInfos}

\* for-each-ref lists refs/heads sorted by name, each branch once.
RefLists ==
    {r \in SeqsUpTo(RefRecords, MaxBranches) :
        \A i, j \in 1..Len(r) :
            i < j => NameIdx(r[i].name) < NameIdx(r[j].name)}

(***************************************************************************)
(* Settings files.                                                         *)
(***************************************************************************)
FileOf(st, ks, mr, ct) ==
    [state |-> st, keys |-> ks, max_retries |-> mr, commit_types |-> ct]

\* A settings file is absent, unparseable, empty (parses to nothing), or a
\* mapping that sets some of the Config keys.
SettingsFiles ==
    {FileOf(st, {}, 0, <<>>) : st \in {"absent", "bad", "empty"}}
    \cup {FileOf("dict", {"max_retries"}, n, <<>>) :
            n \in 0..MaxRetryOverride}

\* Settings files that also replace the list of commit types.
ConfigFiles ==
    SettingsFiles
    \cup {FileOf("dict", {"commit_types"}, 0, <<"wip">>),
          FileOf("dict", {"max_retries", "commit_types"}, 1, <<"wip">>)}

\* config_dict.update(user_config): a top-level key of the file replaces
\* the value of that key, whole.
Update(config_dict, user_config) ==
    [k \in DOMAIN config_dict |->
        IF k \in user_config.keys THEN user_config[k] ELSE config_dict[k]]

\* The loop over config_paths: an unparseable file is warned about, a file
\* that parses to nothing is passed over, the first mapping is applied.
RECURSIVE LoadPaths(_, _, _)
LoadPaths(config_paths, config_dict, out) ==
    IF config_paths = <<>> THEN [config |-> config_dict, out |-> out]
    ELSE LET f == Head(config_paths) IN
         CASE f.state = "absent" ->
                LoadPaths(Tail(config_paths), config_dict, out)
           [] f.state = "bad" ->
                LoadPaths(Tail(config_paths), config_dict,
                          Append(out, "warning"))
           [] f.state = "empty" ->
                LoadPaths(Tail(config_paths), config_dict, out)
           [] f.state = "dict" ->
                [config |-> Update(config_dict, f),
                 out |-> Append(out, "config")]

load_config(yaml_available, repo_root, repo_file, home_file) ==
    IF ~yaml_available THEN [config |-> DEFAULT_CONFIG, out |-> <<>>]
    ELSE LoadPaths((IF repo_root THEN <<repo_file>> ELSE <<>>)
                        \o <<home_file>>,
                   DEFAULT_CONFIG, <<>>)

(***************************************************************************)
(* Diff truncation.                                                        *)
(***************************************************************************)
\* s[:n]: the first n items, or for a negative n all but the last -n.
SliceTo(s, n) ==
    LET stop == IF n >= 0 THEN (IF n < Len(s) THEN n ELSE Len(s))
                ELSE (IF Len(s) + n > 0 THEN Len(s) + n ELSE 0)
    IN SubSeq(s, 1, stop)

\* f"\n\n... [Truncated: showing first {max_diff_chars} of {original_size}
\* characters]"
TruncationNote(max_diff_chars, original_size) ==
    <<"\n", "\n", ".", ".", ".", " ", "[", "T", "r", "u", "n", "c", "a",
      "t", "e", "d", ":", " ", "s", "h", "o", "w", "i", "n", "g", " ", "f",
      "i", "r", "s", "t", " ">>
    \o Str(max_diff_chars) \o <<" ", "o", "f", " ">> \o Str(original_size)
    \o <<" ", "c", "h", "a", "r", "a", "c", "t", "e", "r", "s", "]">>

\* "Truncate if too large" in get_branch_diff.
TruncateBranchDiff(diff_content, max_diff_chars) ==
    LET original_size == Len(diff_content)
    IN IF Len(diff_content) > max_diff_chars
       THEN SliceTo(diff_content, max_diff_chars)
            \o TruncationNote(max_diff_chars, original_size)
       ELSE diff_content

\* "Truncate if too large" in get_staged_changes.
TruncateStagedDiff(diff_content, max_diff_chars) ==
    LET original_size == Len(diff_content)
    IN IF Len(diff_content) > max_diff_chars
       THEN SliceTo(diff_content, max_diff_chars)
            \o TruncationNote(max_diff_chars, original_size)
       ELSE diff_content

(***************************************************************************)
(* File statistics.                                                        *)
(***************************************************************************)
\* A search whose group takes one digit only.
StatCountOneDigit(diff_stat, tails) ==
    LET hits == {i \in 1..Len(diff_stat) :
                    /\ diff_stat[i] \in Digits
                    /\ \E t \in tails : StartsWithAt(diff_stat, i + 1, t)}
        first == CHOOSE i \in hits : \A j \in hits : i <= j
    IN IF hits = {} THEN 0 ELSE DigitsValue(<<diff_stat[first]>>)

\* re.search(r'(\d+)' + tail, diff_stat) and int(match.group(1)), where the
\* tails spell out the optional "s": the number at the leftmost position
\* where digits are followed by a tail; 0 without a match.
StatCount(diff_stat, tails) ==
    LET hits == {i \in 1..Len(diff_stat) :
                    /\ diff_stat[i] \in Digits
                    /\ \E t \in tails :
                        StartsWithAt(diff_stat,
                                     i + Len(DigitRun(diff_stat, i)), t)}
        first == CHOOSE i \in hits : \A j \in hits : i <= j
    IN IF hits = {} THEN 0 ELSE DigitsValue(DigitRun(diff_stat, first))

\* r' files? changed', r' insertions?', r' deletions?'
FilesTails ==
    {<<" ", "f", "i", "l", "e", " ", "c", "h", "a", "n", "g", "e", "d">>,
     <<" ", "f", "i", "l", "e", "s", " ", "c", "h", "a", "n", "g", "e", "d">>}

InsertionsTails ==
    {<<" ", "i", "n", "s", "e", "r", "t", "i", "o", "n">>,
     <<" ", "i", "n", "s", "e", "r", "t", "i", "o", "n", "s">>}

DeletionsTails ==
    {<<" ", "d", "e", "l", "e", "t", "i", "o", "n">>,
     <<" ", "d", "e", "l", "e", "t", "i", "o", "n", "s">>}

\* "Parse file statistics" in get_branch_diff.
ParseBranchStats(diff_stat) ==
    [files_changed |-> StatCount(diff_stat, FilesTails),
     insertions |-> StatCount(diff_stat, InsertionsTails),
     deletions |-> StatCount(diff_stat, DeletionsTails)]

\* "Parse file statistics" in get_staged_changes.
ParseStagedStats(diff_stat) ==
    [files_changed |-> StatCount(diff_stat, FilesTails),
     insertions |-> StatCount(diff_stat, InsertionsTails),
     deletions |-> StatCount(diff_stat, DeletionsTails)]

(***************************************************************************)
(* Initial state: a parsed command line, nothing read or written yet.      *)
(***************************************************************************)
Init ==
    /\ args \in [staged : BOOLEAN, branch : {NoneVal, "b1"},
                 auto_commit : BOOLEAN, json : BOOLEAN]
    /\ api_key = Unread
    /\ refs = <<>>
    /\ pc = "main"
    /\ ret = "none"
    /\ exit_code = Running
    /\ stdout = <<>>
    /\ stderr = <<>>
    /\ config = DEFAULT_CONFIG
    /\ branch_info = None
    /\ commit_message = None
    /\ attempt = 0
    /\ gen_log = <<>>
    /\ gen_calls = 0
    /\ api_requests = 0
    /\ branches = <<>>
    /\ scan_idx = 1
    /\ scanned = <<>>
    /\ results = <<>>
    /\ selected_branch = NoneVal
    /\ prompts = 0
    /\ choice = <<>>
    /\ confirm = None
    /\ temp_file = [created |-> FALSE, exists |-> FALSE, content |-> <<>>]
    /\ commits = <<>>
    /\ call = NoCall

(***************************************************************************)
(* main: repository check and configuration.                               *)
(***************************************************************************)
\* run_git when git is found: subprocess.run raises CalledProcessError only
\* with check=True, so with check=False a non-zero exit still returns
\* (True, stdout).
run_git(check, exit_zero, out, err) ==
    IF exit_zero \/ ~check THEN [success |-> TRUE, output |-> out]
    ELSE [success |-> FALSE, output |-> err]

\* "if not is_git_repo()": rev-parse --git-dir is run with check=False.  A
\* missing git binary makes run_git report an error and exit 1 itself.
IsGitRepo ==
    /\ pc = "main"
    /\ \E outcome \in {"repo", "not_repo", "no_git"} :
        IF /\ outcome # "no_git"
           /\ run_git(FALSE, outcome = "repo", "", "").success
        THEN /\ pc' = "load_config"
             /\ UNCHANGED <<exit_code, stdout>>
        ELSE /\ stdout' = Append(stdout, "error")
             /\ exit_code' = 1
             /\ pc' = "done"
    /\ UNCHANGED <<call, args, api_key, refs, ret, stderr, config, branch_info,
                   commit_message, attempt, gen_log, gen_calls, api_requests,
                   branches, scan_idx, scanned, results, selected_branch,
                   prompts, choice, confirm, temp_file, commits>>

\* config = load_config(), then the dispatch on the mode flags.
LoadConfig ==
    /\ pc = "load_config"
    /\ \E yaml_available \in BOOLEAN, repo_root \in BOOLEAN,
          repo_file \in SettingsFiles, home_file \in SettingsFiles :
        LET r == load_config(yaml_available, repo_root, repo_file, home_file)
        IN /\ config' = r.config
           /\ stdout' = stdout \o r.out
    /\ pc' = IF args.staged THEN "staged"
             ELSE IF args.branch # NoneVal THEN "branch" ELSE "scan"
    /\ UNCHANGED <<call, args, api_key, refs, ret, exit_code, stderr, branch_info,
                   commit_message, attempt, gen_log, gen_calls, api_requests,
                   branches, scan_idx, scanned, results, selected_branch,
                   prompts, choice, confirm, temp_file, commits>>

(***************************************************************************)
(* generate_commit_message.                                                *)
(***************************************************************************)
\* "if not api_key": an unset variable and an empty one are both falsy.
KeyMissing(k) == k \in {"absent", "empty"}

\* "if not commit_message": None and the empty string are both falsy.
Falsy(m) == m = None \/ m = Some(<<>>)

\* A first clause that catches every APIError, rate limits or not.
ExceptClauseBroad(kind) ==
    CASE kind \in {"rate_limit", "api_error"} -> "RateLimitError"
      [] kind = "exception" -> "Exception"
      [] OTHER -> "none"

\* The except clause that catches the outcome of a request.
ExceptClause(kind) ==
    CASE kind = "rate_limit" -> "RateLimitError"
      [] kind = "api_error" -> "APIError"
      [] kind = "exception" -> "Exception"
      [] OTHER -> "none"

\* A loop that runs once more than range() does.
InRangeInclusive(a, max_retries) == a <= max_retries

\* "for attempt in range(config.max_retries)": the loop body runs for
\* attempt = 0, ..., max_retries - 1, and not at all for max_retries <= 0.
InRange(a, max_retries) == a < max_retries

\* "if attempt < config.max_retries - 1": a later attempt is still allowed.
MayRetry(a, max_retries) == a < max_retries - 1

\* A linear backoff, 2 * attempt.
WaitTimeLinear(a) == 2 * a

\* wait_time = 2 ** attempt
WaitTime(a) == 2 ^ a

LogEntry(o, a, w) == [outcome |-> o, attempt |-> a, wait |-> w]

\* The credential check that precedes the client construction.
GenCheckKey ==
    /\ pc = "gen_key"
    /\ \E k \in {"absent", "empty", "set"} :
        /\ api_key \in {Unread, k}
        /\ api_key' = k
        /\ IF KeyMissing(k)
           THEN /\ stdout' = Append(stdout, "error")
                /\ commit_message' = None
                /\ pc' = ret
           ELSE /\ pc' = "gen_loop"
                /\ UNCHANGED <<stdout, commit_message>>
    /\ UNCHANGED <<call, args, refs, ret, exit_code, stderr, config, branch_info,
                   attempt, gen_log, gen_calls, api_requests, branches,
                   scan_idx, scanned, results, selected_branch, prompts, choice,
                   confirm, temp_file, commits>>

\* One iteration of "for attempt in range(config.max_retries)": the request,
\* and whatever the matching branch or except clause does, sleep included.
GenRequest ==
    /\ pc = "gen_loop"
    /\ InRange(attempt, config.max_retries)
    /\ api_requests' = api_requests + 1
    /\ \E o \in ApiOutcomes :
        CASE o.kind = "content" ->
                /\ commit_message' = Some(Strip(o.text))
                /\ gen_log' = Append(gen_log, LogEntry(o.kind, attempt, 0))
                /\ pc' = ret
                /\ UNCHANGED <<attempt, stdout>>
          [] o.kind = "empty_content" ->
                /\ attempt' = attempt + 1
                /\ gen_log' = Append(gen_log, LogEntry(o.kind, attempt, 0))
                /\ UNCHANGED <<commit_message, pc, stdout>>
          [] ExceptClause(o.kind) = "RateLimitError" ->
                IF MayRetry(attempt, config.max_retries)
                THEN /\ stdout' = Append(stdout, "warning")
                     /\ gen_log' = Append(gen_log,
                            LogEntry(o.kind, attempt, WaitTime(attempt)))
                     /\ attempt' = attempt + 1
                     /\ UNCHANGED <<commit_message, pc>>
                ELSE /\ stdout' = Append(stdout, "error")
                     /\ gen_log' = Append(gen_log,
                                          LogEntry(o.kind, attempt, 0))
                     /\ commit_message' = None
                     /\ pc' = ret
                     /\ UNCHANGED attempt
          [] ExceptClause(o.kind) \in {"APIError", "Exception"} ->
                /\ stdout' = Append(stdout, "error")
                /\ gen_log' = Append(gen_log, LogEntry(o.kind, attempt, 0))
                /\ commit_message' = None
                /\ pc' = ret
                /\ UNCHANGED attempt
    /\ UNCHANGED <<call, args, api_key, refs, ret, exit_code, stderr, config,
                   branch_info, gen_calls, branches, scan_idx, scanned,
                   results, selected_branch, prompts, choice, confirm, temp_file,
                   commits>>

\* The loop ran out of attempts: the final "return None".
GenLoopEnd ==
    /\ pc = "gen_loop"
    /\ ~InRange(attempt, config.max_retries)
    /\ commit_message' = None
    /\ pc' = ret
    /\ UNCHANGED <<call, args, api_key, refs, ret, exit_code, stdout, stderr,
                   config, branch_info, attempt, gen_log, gen_calls,
                   api_requests, branches, scan_idx, scanned, results,
                   selected_branch, prompts, choice, confirm, temp_file, commits>>

(***************************************************************************)
(* Staged mode.                                                            *)
(***************************************************************************)
BranchInfo(name, upstream, ahead, behind) ==
    [name |-> name, upstream |-> upstream, ahead |-> ahead, behind |-> behind]

\* status: outcome of "diff --cached --name-only"; current: outcome of
\* "branch --show-current" as (ok, out).
get_staged_changes(status, stat_ok, diff_ok, current) ==
    IF status # "files" THEN None
    ELSE IF ~stat_ok THEN None
    ELSE IF ~diff_ok THEN None
    ELSE Some(BranchInfo(IF current.ok THEN current.out ELSE "HEAD",
                         NoneVal, 0, 0))

\* "if args.staged": collect the staged changes and call the generator.
StagedCollect ==
    /\ pc = "staged"
    /\ \E status \in {"fail", "empty", "files"}, stat_ok \in BOOLEAN,
          diff_ok \in BOOLEAN,
          current \in [ok : BOOLEAN, out : {"b1", ""}] :
        LET info == get_staged_changes(status, stat_ok, diff_ok, current)
            shown == IF args.json THEN stdout ELSE Append(stdout, "status")
        IN /\ branch_info' = info
           /\ IF info = None
              THEN /\ stdout' = Append(shown, "info")
                   /\ exit_code' = 0
                   /\ pc' = "done"
                   /\ UNCHANGED <<ret, attempt, gen_log, gen_calls>>
              ELSE /\ stdout' = shown
                   /\ pc' = "gen_key"
                   /\ ret' = "staged_ret"
                   /\ attempt' = 0
                   /\ gen_log' = <<>>
                   /\ gen_calls' = gen_calls + 1
                   /\ UNCHANGED exit_code
    /\ UNCHANGED <<call, args, api_key, refs, stderr, config, commit_message,
                   api_requests, branches, scan_idx, scanned, results,
                   selected_branch, prompts, choice, confirm, temp_file, commits>>

\* After generation in staged mode: the output, then the auto-commit gate.
StagedOutput ==
    /\ pc = "staged_ret"
    /\ IF Falsy(commit_message)
       THEN /\ exit_code' = 1
            /\ pc' = "done"
            /\ UNCHANGED <<stdout, stderr>>
       ELSE IF ~args.auto_commit
       THEN /\ stdout' = Append(stdout, IF args.json THEN "json" ELSE "text")
            /\ exit_code' = 0
            /\ pc' = "done"
            /\ UNCHANGED stderr
       ELSE IF args.json
       THEN /\ stdout' = Append(stdout, "json")
            /\ stderr' = Append(stderr, "error")
            /\ exit_code' = 1
            /\ pc' = "done"
       ELSE /\ stdout' = Append(Append(stdout, "text"), "status")
            /\ pc' = "confirm"
            /\ UNCHANGED <<exit_code, stderr>>
    /\ UNCHANGED <<call, args, api_key, refs, ret, config, branch_info,
                   commit_message, attempt, gen_log, gen_calls, api_requests,
                   branches, scan_idx, scanned, results, selected_branch,
                   prompts, choice, confirm, temp_file, commits>>

\* A test that accepts every answer starting with y.
IsYesPrefix(c) == c # <<>> /\ Head(c) = "y"

\* "if confirm == 'y'"
IsYes(c) == c = <<"y">>

\* confirm = input(...).strip().lower(), then the test of the answer.
Confirm ==
    /\ pc = "confirm"
    /\ \E answer \in Answers :
        /\ confirm' = Some([raw |-> answer, value |-> Lower(Strip(answer))])
        /\ IF IsYes(Lower(Strip(answer)))
           THEN /\ pc' = "temp_create"
                /\ UNCHANGED <<stdout, exit_code>>
           ELSE /\ stdout' = Append(stdout, "error")
                /\ exit_code' = 0
                /\ pc' = "done"
    /\ UNCHANGED <<call, args, api_key, refs, ret, stderr, config, branch_info,
                   commit_message, attempt, gen_log, gen_calls, api_requests,
                   branches, scan_idx, scanned, results, selected_branch,
                   prompts, choice, temp_file, commits>>

\* input() ended by an interrupt or by end of input: nothing in main
\* catches either, so the run dies with a traceback.
ConfirmAbort ==
    /\ pc = "confirm"
    /\ \E how \in {"interrupt", "eof"} :
        exit_code' = IF how = "interrupt" THEN ExitInterrupt ELSE 1
    /\ stderr' = Append(stderr, "traceback")
    /\ pc' = "done"
    /\ UNCHANGED <<call, args, api_key, refs, ret, stdout, config, branch_info,
                   commit_message, attempt, gen_log, gen_calls, api_requests,
                   branches, scan_idx, scanned, results, selected_branch,
                   prompts, choice, confirm, temp_file, commits>>

\* os.unlink(temp_file) in the finally clause.
Unlink(tf) == [tf EXCEPT !.exists = FALSE]

\* tempfile.NamedTemporaryFile(mode='w', delete=False, suffix='.txt').
TempCreate ==
    /\ pc = "temp_create"
    /\ \E ok \in BOOLEAN :
        IF ok
        THEN /\ temp_file' = [created |-> TRUE, exists |-> TRUE,
                              content |-> <<>>]
             /\ pc' = "temp_write"
             /\ UNCHANGED <<exit_code, stderr>>
        ELSE /\ stderr' = Append(stderr, "traceback")
             /\ exit_code' = 1
             /\ pc' = "done"
             /\ UNCHANGED temp_file
    /\ UNCHANGED <<call, args, api_key, refs, ret, stdout, config, branch_info,
                   commit_message, attempt, gen_log, gen_calls, api_requests,
                   branches, scan_idx, scanned, results, selected_branch,
                   prompts, choice, confirm, commits>>

\* The body of the with block: f.write(commit_message) and the close.  The
\* block is outside the try/finally, and delete=False keeps the file when
\* the block is left by an exception.
TempWrite ==
    /\ pc = "temp_write"
    /\ \E outcome \in {"ok", "error", "interrupt"} :
        IF outcome = "ok"
        THEN /\ temp_file' = [temp_file EXCEPT !.content = commit_message[1]]
             /\ pc' = "commit"
             /\ UNCHANGED <<exit_code, stderr>>
        ELSE /\ stderr' = Append(stderr, "traceback")
             /\ exit_code' = IF outcome = "error" THEN 1 ELSE ExitInterrupt
             /\ pc' = "done"
             /\ UNCHANGED temp_file
    /\ UNCHANGED <<call, args, api_key, refs, ret, stdout, config, branch_info,
                   commit_message, attempt, gen_log, gen_calls, api_requests,
                   branches, scan_idx, scanned, results, selected_branch,
                   prompts, choice, confirm, commits>>

\* The try block: git commit -F temp_file, the finally clause, and the
\* exit that follows.
Commit ==
    /\ pc = "commit"
    /\ \E outcome \in {"ok", "fail", "interrupt"} :
        CASE outcome = "ok" ->
                /\ commits' = Append(commits, temp_file.content)
                /\ stdout' = Append(stdout, "status")
                /\ exit_code' = 0
                /\ UNCHANGED stderr
          [] outcome = "fail" ->
                /\ stdout' = Append(stdout, "error")
                /\ exit_code' = 1
                /\ UNCHANGED <<commits, stderr>>
          [] outcome = "interrupt" ->
                /\ stderr' = Append(stderr, "traceback")
                /\ exit_code' = ExitInterrupt
                /\ UNCHANGED <<commits, stdout>>
    /\ temp_file' = Unlink(temp_file)
    /\ pc' = "done"
    /\ UNCHANGED <<call, args, api_key, refs, ret, config, branch_info,
                   commit_message, attempt, gen_log, gen_calls, api_requests,
                   branches, scan_idx, scanned, results, selected_branch,
                   prompts, choice, confirm>>

(***************************************************************************)
(* Branch queries.                                                         *)
(***************************************************************************)
\* A search whose group takes one digit only.
SearchCountOneDigit(word, track_info) ==
    LET pat == word \o <<" ">>
        hits == {i \in 1..Len(track_info) :
                    /\ StartsWithAt(track_info, i, pat)
                    /\ DigitRun(track_info, i + Len(pat)) # <<>>}
        first == CHOOSE i \in hits : \A j \in hits : i <= j
    IN IF hits = {} THEN 0
       ELSE DigitsValue(<<track_info[first + Len(pat)]>>)

\* re.search(word + r' (\d+)', track_info) and int(match.group(1)): the
\* number after the leftmost occurrence of the word, a space and a digit;
\* 0 without a match.
SearchCount(word, track_info) ==
    LET pat == word \o <<" ">>
        hits == {i \in 1..Len(track_info) :
                    /\ StartsWithAt(track_info, i, pat)
                    /\ DigitRun(track_info, i + Len(pat)) # <<>>}
        first == CHOOSE i \in hits : \A j \in hits : i <= j
    IN IF hits = {} THEN 0
       ELSE DigitsValue(DigitRun(track_info, first + Len(pat)))

parse_tracking_info(track_info) ==
    IF track_info = <<>> THEN [ahead |-> 0, behind |-> 0]
    ELSE [ahead |-> SearchCount(<<"a", "h", "e", "a", "d">>, track_info),
          behind |-> SearchCount(<<"b", "e", "h", "i", "n", "d">>,
                                 track_info)]

\* "parts[1] if len(parts) > 1 and parts[1] else None" on one listed line.
BranchTuple(ref) ==
    LET t == parse_tracking_info(TrackText(ref.track))
    IN BranchInfo(ref.name, ref.upstream, t.ahead, t.behind)

IsAhead(b) == b.ahead > 0

\* listing: the refs printed by for-each-ref refs/heads.
get_all_branches_with_status(success, listing) ==
    IF ~success \/ listing = <<>> THEN <<>>
    ELSE SelectSeq([i \in 1..Len(listing) |-> BranchTuple(listing[i])],
                   IsAhead)

\* Output of for-each-ref refs/heads/<branch> after split('|'): one empty
\* part when no ref matches (git then prints nothing and still exits 0).
QueryBranch(listing, branch) ==
    LET hits == {i \in 1..Len(listing) : listing[i].name = branch}
    IN IF hits = {}
       THEN [len |-> 1, upstream |-> "", track |-> <<>>]
       ELSE LET ref == listing[CHOOSE i \in hits : TRUE]
            IN [len |-> 2,
                upstream |-> IF ref.upstream = NoneVal THEN ""
                             ELSE ref.upstream,
                track |-> TrackText(ref.track)]

Candidates == <<"origin/main", "origin/master", "main", "master">>

\* What the repository answers to the upstream-resolution queries: whether
\* refs/remotes/origin/HEAD is set (symbolic-ref exits 0 and prints it), and
\* which candidates rev-parse --verify resolves (exits 0 on).
Resolutions == [symbolic : BOOLEAN, resolves : SUBSET (1..Len(Candidates))]

NoResolution == [symbolic |-> FALSE, resolves |-> {}]

\* default_branch.replace("refs/remotes/", "") on what symbolic-ref prints.
StripRemotes(out) ==
    IF out = "refs/remotes/origin/main" THEN "origin/main" ELSE out

\* "for candidate in [...]": rev-parse --verify with check=False on each
\* candidate from position i on, until one call reports success.
RECURSIVE TryCandidates(_, _, _)
TryCandidates(i, resolution, queries) ==
    IF i > Len(Candidates) THEN [upstream |-> NoneVal, queries |-> queries]
    ELSE IF run_git(FALSE, i \in resolution.resolves, "", "").success
    THEN [upstream |-> Candidates[i],
          queries |-> Append(queries, Candidates[i])]
    ELSE TryCandidates(i + 1, resolution, Append(queries, Candidates[i]))

\* "if not upstream": symbolic-ref with check=False, on success its output
\* without the refs/remotes/ prefix, else the candidate loop.  Returns the
\* upstream and the queries made.
ResolveUpstream(upstream, resolution) ==
    IF upstream # NoneVal THEN [upstream |-> upstream, queries |-> <<>>]
    ELSE LET r == run_git(FALSE, resolution.symbolic,
                          IF resolution.symbolic
                          THEN "refs/remotes/origin/main" ELSE "", "")
         IN IF r.success
            THEN [upstream |-> StripRemotes(r.output),
                  queries |-> <<"symbolic-ref">>]
            ELSE TryCandidates(1, resolution, <<"symbolic-ref">>)

\* Returns the BranchInfo (or None), the lines printed on the way and the
\* upstream-resolution queries made.  The second "if not upstream" takes
\* None and the empty string alike.
get_branch_diff(branch, upstream, resolution, stat_ok, diff_ok, track_ok, listing) ==
    LET res == ResolveUpstream(upstream, resolution)
        up == res.upstream
        q == QueryBranch(listing, branch)
        t == parse_tracking_info(IF track_ok THEN q.track ELSE <<>>)
    IN IF up \in {NoneVal, ""}
       THEN [info |-> None, out |-> <<"warning">>, queries |-> res.queries]
       ELSE IF ~stat_ok
       THEN [info |-> None, out |-> <<>>, queries |-> res.queries]
       ELSE IF ~diff_ok
       THEN [info |-> None, out |-> <<>>, queries |-> res.queries]
       ELSE [info |-> Some(BranchInfo(branch, up, t.ahead, t.behind)),
             out |-> <<>>, queries |-> res.queries]

\* The resolutions a call can observe: none is queried with an upstream.
ResolutionsFor(upstream) ==
    IF upstream = NoneVal THEN Resolutions ELSE {NoResolution}

(***************************************************************************)
(* Named-branch mode.                                                      *)
(***************************************************************************)
\* "if args.branch": the ref query, the ahead test, the diff collection
\* and the call of the generator.
BranchCollect ==
    /\ pc = "branch"
    /\ \E listing \in RefLists, success \in BOOLEAN :
        LET shown == IF args.json THEN stdout ELSE Append(stdout, "status")
            parts == QueryBranch(listing, args.branch)
            upstream == IF parts.upstream # "" THEN parts.upstream
                        ELSE NoneVal
            track_info == IF parts.len > 1 THEN parts.track ELSE <<>>
            ahead == parse_tracking_info(track_info).ahead
        IN /\ refs' = listing
           /\ IF ~success
              THEN /\ stdout' = Append(shown, "error")
                   /\ exit_code' = 1
                   /\ pc' = "done"
                   /\ UNCHANGED <<branch_info, ret, attempt, gen_log,
                                  gen_calls>>
              ELSE IF ahead = 0
              THEN /\ stdout' = Append(shown, "info")
                   /\ exit_code' = 0
                   /\ pc' = "done"
                   /\ UNCHANGED <<branch_info, ret, attempt, gen_log,
                                  gen_calls>>
              ELSE \E resolution \in ResolutionsFor(upstream),
                      stat_ok \in BOOLEAN, diff_ok \in BOOLEAN,
                      track_ok \in BOOLEAN :
                    LET d == get_branch_diff(args.branch, upstream,
                                 resolution, stat_ok, diff_ok, track_ok,
                                 listing)
                    IN /\ branch_info' = d.info
                       /\ IF d.info = None
                          THEN /\ stdout' = Append(shown \o d.out, "error")
                               /\ exit_code' = 1
                               /\ pc' = "done"
                               /\ UNCHANGED <<ret, attempt, gen_log,
                                              gen_calls>>
                          ELSE /\ stdout' = shown \o d.out
                               /\ pc' = "gen_key"
                               /\ ret' = "branch_ret"
                               /\ attempt' = 0
                               /\ gen_log' = <<>>
                               /\ gen_calls' = gen_calls + 1
                               /\ UNCHANGED exit_code
    /\ UNCHANGED <<call, args, api_key, stderr, config, commit_message,
                   api_requests, branches, scan_idx, scanned, results,
                   selected_branch, prompts, choice, confirm, temp_file,
                   commits>>

\* After generation in named-branch mode.
BranchOutput ==
    /\ pc = "branch_ret"
    /\ IF Falsy(commit_message)
       THEN /\ exit_code' = 1
            /\ UNCHANGED stdout
       ELSE /\ stdout' = Append(stdout, IF args.json THEN "json" ELSE "text")
            /\ exit_code' = 0
    /\ pc' = "done"
    /\ UNCHANGED <<call, args, api_key, refs, ret, stderr, config, branch_info,
                   commit_message, attempt, gen_log, gen_calls, api_requests,
                   branches, scan_idx, scanned, results, selected_branch,
                   prompts, choice, confirm, temp_file, commits>>

(***************************************************************************)
(* Scan mode.                                                              *)
(***************************************************************************)
\* "Default mode": list the branches that are ahead; none is a no-op, else
\* the menu is entered (interactive) or the JSON loop starts.
ScanList ==
    /\ pc = "scan"
    /\ \E listing \in RefLists, success \in BOOLEAN :
        LET shown == IF args.json THEN stdout ELSE Append(stdout, "status")
            found == get_all_branches_with_status(success, listing)
        IN /\ refs' = listing
           /\ branches' = found
           /\ IF found = <<>>
              THEN /\ stdout' = Append(shown, "info")
                   /\ exit_code' = 0
                   /\ pc' = "done"
              ELSE /\ stdout' = shown
                   /\ pc' = IF args.json THEN "scan_loop"
                            ELSE "select_enter"
                   /\ UNCHANGED exit_code
    /\ UNCHANGED <<call, args, api_key, ret, stderr, config, branch_info,
                   commit_message, attempt, gen_log, gen_calls, api_requests,
                   scan_idx, scanned, results, selected_branch, prompts,
                   choice, confirm, temp_file, commits>>

\* A menu that indexes the list with the number as typed (0-based).
SelectChoiceZeroBased(input, listed) ==
    LET choice_num == ParseInt(Strip(input))
    IN IF ~choice_num.ok THEN [returns |-> FALSE, value |-> NoneVal]
       ELSE IF choice_num.val = 0 THEN [returns |-> TRUE, value |-> NoneVal]
       ELSE IF 1 <= choice_num.val /\ choice_num.val <= Len(listed)
       THEN [returns |-> TRUE,
             value |-> listed[(choice_num.val % Len(listed)) + 1].name]
       ELSE [returns |-> FALSE, value |-> NoneVal]

\* What one menu input decides: choice_num = int(choice), then the tests.
SelectChoice(input, listed) ==
    LET choice_num == ParseInt(Strip(input))
    IN IF ~choice_num.ok THEN [returns |-> FALSE, value |-> NoneVal]
       ELSE IF choice_num.val = 0 THEN [returns |-> TRUE, value |-> NoneVal]
       ELSE IF 1 <= choice_num.val /\ choice_num.val <= Len(listed)
       THEN [returns |-> TRUE, value |-> listed[choice_num.val].name]
       ELSE [returns |-> FALSE, value |-> NoneVal]

\* Entry of interactive_select_branch: an empty list returns None at once,
\* otherwise the numbered menu is printed.
SelectEnter ==
    /\ pc = "select_enter"
    /\ IF branches = <<>>
       THEN /\ selected_branch' = NoneVal
            /\ pc' = "select_ret"
            /\ UNCHANGED stdout
       ELSE /\ stdout' = Append(stdout, "status")
            /\ pc' = "select"
            /\ UNCHANGED selected_branch
    /\ UNCHANGED <<call, args, api_key, refs, ret, exit_code, stderr, config,
                   branch_info, commit_message, attempt, gen_log, gen_calls,
                   api_requests, branches, scan_idx, scanned, results,
                   prompts, choice, confirm, temp_file, commits>>

\* One turn of the "while True" loop of interactive_select_branch.
Select ==
    /\ pc = "select"
    /\ \E input \in Choices :
        LET r == SelectChoice(input, branches)
        IN /\ choice' = input
           /\ IF r.returns
              THEN /\ selected_branch' = r.value
                   /\ pc' = "select_ret"
                   /\ UNCHANGED <<stdout, prompts>>
              ELSE /\ prompts < MaxPrompts
                   /\ prompts' = prompts + 1
                   /\ stdout' = Append(stdout, "error")
                   /\ UNCHANGED <<selected_branch, pc>>
    /\ UNCHANGED <<call, args, api_key, refs, ret, exit_code, stderr, config,
                   branch_info, commit_message, attempt, gen_log, gen_calls,
                   api_requests, branches, scan_idx, scanned, results,
                   confirm, temp_file, commits>>

\* "except KeyboardInterrupt": the menu is cancelled and returns None.
SelectInterrupt ==
    /\ pc = "select"
    /\ choice' = <<"^C">>
    /\ stdout' = Append(stdout, "status")
    /\ selected_branch' = NoneVal
    /\ pc' = "select_ret"
    /\ UNCHANGED <<call, args, api_key, refs, ret, exit_code, stderr, config,
                   branch_info, commit_message, attempt, gen_log, gen_calls,
                   api_requests, branches, scan_idx, scanned, results,
                   prompts, confirm, temp_file, commits>>

\* End of input at the menu: EOFError is not caught anywhere.
SelectEof ==
    /\ pc = "select"
    /\ choice' = <<"^D">>
    /\ stderr' = Append(stderr, "traceback")
    /\ exit_code' = 1
    /\ pc' = "done"
    /\ UNCHANGED <<call, args, api_key, refs, ret, stdout, config, branch_info,
                   commit_message, attempt, gen_log, gen_calls, api_requests,
                   branches, scan_idx, scanned, results, selected_branch,
                   prompts, confirm, temp_file, commits>>

\* The tuple main looks up for the selected name.
TupleOf(listed, name) ==
    listed[CHOOSE i \in 1..Len(listed) :
              /\ listed[i].name = name
              /\ \A j \in 1..(i - 1) : listed[j].name # name]

\* After the menu: exit on cancellation, else collect and generate.
ScanInteractive ==
    /\ pc = "select_ret"
    /\ IF selected_branch = NoneVal
       THEN /\ stdout' = Append(stdout, "status")
            /\ exit_code' = 0
            /\ pc' = "done"
            /\ UNCHANGED <<branch_info, ret, attempt, gen_log, gen_calls>>
       ELSE LET b == TupleOf(branches, selected_branch) IN
            \E resolution \in ResolutionsFor(b.upstream),
               stat_ok \in BOOLEAN, diff_ok \in BOOLEAN,
               track_ok \in BOOLEAN :
                LET d == get_branch_diff(b.name, b.upstream, resolution,
                                         stat_ok, diff_ok, track_ok, refs)
                    shown == Append(stdout, "status") \o d.out
                IN /\ branch_info' = d.info
                   /\ IF d.info = None
                      THEN /\ stdout' = Append(shown, "error")
                           /\ exit_code' = 1
                           /\ pc' = "done"
                           /\ UNCHANGED <<ret, attempt, gen_log, gen_calls>>
                      ELSE /\ stdout' = shown
                           /\ pc' = "gen_key"
                           /\ ret' = "scan_one_ret"
                           /\ attempt' = 0
                           /\ gen_log' = <<>>
                           /\ gen_calls' = gen_calls + 1
                           /\ UNCHANGED exit_code
    /\ UNCHANGED <<call, args, api_key, refs, stderr, config, commit_message,
                   api_requests, branches, scan_idx, scanned, results,
                   selected_branch, prompts, choice, confirm, temp_file,
                   commits>>

\* After generation for the selected branch; main then runs off its end.
ScanInteractiveOutput ==
    /\ pc = "scan_one_ret"
    /\ IF Falsy(commit_message)
       THEN /\ exit_code' = 1
            /\ UNCHANGED stdout
       ELSE /\ stdout' = Append(Append(stdout, "text"), "status")
            /\ exit_code' = 0
    /\ pc' = "done"
    /\ UNCHANGED <<call, args, api_key, refs, ret, stderr, config, branch_info,
                   commit_message, attempt, gen_log, gen_calls, api_requests,
                   branches, scan_idx, scanned, results, selected_branch,
                   prompts, choice, confirm, temp_file, commits>>

ScanRecord(name, collected, generated) ==
    [name |-> name, collected |-> collected, generated |-> generated]

ResultEntry(info, message) ==
    [branch |-> info.name, upstream |-> info.upstream, ahead |-> info.ahead,
     behind |-> info.behind, suggested_message |-> message]

\* JSON mode, one branch of "for ... in branches": the diff collection and,
\* when it gave a BranchInfo, the call of the generator.
ScanJsonBranch ==
    /\ pc = "scan_loop"
    /\ scan_idx <= Len(branches)
    /\ LET b == branches[scan_idx] IN
       \E resolution \in ResolutionsFor(b.upstream), stat_ok \in BOOLEAN,
          diff_ok \in BOOLEAN, track_ok \in BOOLEAN :
        LET d == get_branch_diff(b.name, b.upstream, resolution, stat_ok,
                                 diff_ok, track_ok, refs)
        IN /\ branch_info' = d.info
           /\ stdout' = stdout \o d.out
           /\ scanned' = Append(scanned,
                                ScanRecord(b.name, d.info # None, FALSE))
           /\ IF d.info = None
              THEN /\ scan_idx' = scan_idx + 1
                   /\ UNCHANGED <<pc, ret, attempt, gen_log, gen_calls>>
              ELSE /\ pc' = "gen_key"
                   /\ ret' = "scan_ret"
                   /\ attempt' = 0
                   /\ gen_log' = <<>>
                   /\ gen_calls' = gen_calls + 1
                   /\ UNCHANGED scan_idx
    /\ UNCHANGED <<call, args, api_key, refs, exit_code, stderr, config,
                   commit_message, api_requests, branches, results,
                   selected_branch, prompts, choice, confirm, temp_file,
                   commits>>

\* An append that is not guarded by "if commit_message".
AppendResultAlways(res, info, message) ==
    Append(res, ResultEntry(info, IF message = None THEN <<>>
                                  ELSE message[1]))

\* "if commit_message: results.append(...)", then the next branch.
AppendResult(res, info, message) ==
    IF Falsy(message) THEN res
    ELSE Append(res, ResultEntry(info, message[1]))

ScanJsonCollect ==
    /\ pc = "scan_ret"
    /\ results' = AppendResult(results, branch_info[1], commit_message)
    /\ scanned' = [scanned EXCEPT ![Len(scanned)].generated =
                        ~Falsy(commit_message)]
    /\ scan_idx' = scan_idx + 1
    /\ pc' = "scan_loop"
    /\ UNCHANGED <<call, args, api_key, refs, ret, exit_code, stdout, stderr,
                   config, branch_info, commit_message, attempt, gen_log,
                   gen_calls, api_requests, branches, selected_branch,
                   prompts, choice, confirm, temp_file, commits>>

\* The loop is over: print the document; main runs off its end.
ScanJsonEmit ==
    /\ pc = "scan_loop"
    /\ scan_idx > Len(branches)
    /\ stdout' = Append(stdout, "json")
    /\ exit_code' = 0
    /\ pc' = "done"
    /\ UNCHANGED <<call, args, api_key, refs, ret, stderr, config, branch_info,
                   commit_message, attempt, gen_log, gen_calls, api_requests,
                   branches, scan_idx, scanned, results, selected_branch,
                   prompts, choice, confirm, temp_file, commits>>

(***************************************************************************)
(* The run.                                                                *)
(***************************************************************************)
Next ==
    \/ IsGitRepo
    \/ LoadConfig
    \/ GenCheckKey
    \/ GenRequest
    \/ GenLoopEnd
    \/ StagedCollect
    \/ StagedOutput
    \/ Confirm
    \/ ConfirmAbort
    \/ TempCreate
    \/ TempWrite
    \/ Commit
    \/ BranchCollect
    \/ BranchOutput
    \/ ScanList
    \/ SelectEnter
    \/ Select
    \/ SelectInterrupt
    \/ SelectEof
    \/ ScanInteractive
    \/ ScanInteractiveOutput
    \/ ScanJsonBranch
    \/ ScanJsonCollect
    \/ ScanJsonEmit

Spec == Init /\ [][Next]_vars

(***************************************************************************)
(* interactive_select_branch called on its own, on any list of branches    *)
(* that are ahead, the empty list included.                                *)
(***************************************************************************)
SelectInit ==
    /\ args = [staged |-> FALSE, branch |-> NoneVal, auto_commit |-> FALSE,
               json |-> FALSE]
    /\ api_key = Unread
    /\ refs \in RefLists
    /\ pc = "select_enter"
    /\ ret = "none"
    /\ exit_code = Running
    /\ stdout = <<>>
    /\ stderr = <<>>
    /\ config = DEFAULT_CONFIG
    /\ branch_info = None
    /\ commit_message = None
    /\ attempt = 0
    /\ gen_log = <<>>
    /\ gen_calls = 0
    /\ api_requests = 0
    /\ branches = get_all_branches_with_status(TRUE, refs)
    /\ scan_idx = 1
    /\ scanned = <<>>
    /\ results = <<>>
    /\ selected_branch = NoneVal
    /\ prompts = 0
    /\ choice = <<>>
    /\ confirm = None
    /\ temp_file = [created |-> FALSE, exists |-> FALSE, content |-> <<>>]
    /\ commits = <<>>
    /\ call = NoCall

SelectNext ==
    \/ SelectEnter
    \/ Select
    \/ SelectInterrupt
    \/ SelectEof

SpecSelect == SelectInit /\ [][SelectNext]_vars

(***************************************************************************)
(* Functions called on their own.  call holds the arguments and, once pc   *)
(* is "return", the result; main is not running.                           *)
(***************************************************************************)
main_vars == <<args, api_key, refs, ret, exit_code, stdout, stderr, config,
               branch_info, commit_message, attempt, gen_log, gen_calls,
               api_requests, branches, scan_idx, scanned, results,
               selected_branch, prompts, choice, confirm, temp_file,
               commits>>

NotRunning ==
    /\ args = [staged |-> FALSE, branch |-> NoneVal, auto_commit |-> FALSE,
               json |-> FALSE]
    /\ api_key = Unread
    /\ refs = <<>>
    /\ ret = "none"
    /\ exit_code = Running
    /\ stdout = <<>>
    /\ stderr = <<>>
    /\ config = DEFAULT_CONFIG
    /\ branch_info = None
    /\ commit_message = None
    /\ attempt = 0
    /\ gen_log = <<>>
    /\ gen_calls = 0
    /\ api_requests = 0
    /\ branches = <<>>
    /\ scan_idx = 1
    /\ scanned = <<>>
    /\ results = <<>>
    /\ selected_branch = NoneVal
    /\ prompts = 0
    /\ choice = <<>>
    /\ confirm = None
    /\ temp_file = [created |-> FALSE, exists |-> FALSE, content |-> <<>>]
    /\ commits = <<>>

(***************************************************************************)
(* load_config on any pair of settings files.                              *)
(***************************************************************************)
ConfigInit ==
    /\ pc = "call"
    /\ call \in [fn : {"load_config"}, yaml_available : BOOLEAN,
                  repo_root : BOOLEAN, repo_file : ConfigFiles,
                  home_file : ConfigFiles,
                  result : {[config |-> DEFAULT_CONFIG, out |-> <<>>]}]
    /\ NotRunning

\* config = load_config(): what it returns and what it prints.
CallLoadConfig ==
    /\ pc = "call"
    /\ call.fn = "load_config"
    /\ call' = [call EXCEPT !.result =
                    load_config(call.yaml_available, call.repo_root,
                                call.repo_file, call.home_file)]
    /\ config' = call'.result.config
    /\ stdout' = stdout \o call'.result.out
    /\ pc' = "return"
    /\ UNCHANGED <<args, api_key, refs, ret, exit_code, stderr, branch_info,
                   commit_message, attempt, gen_log, gen_calls, api_requests,
                   branches, scan_idx, scanned, results, selected_branch,
                   prompts, choice, confirm, temp_file, commits>>

ConfigNext == CallLoadConfig

SpecConfig == ConfigInit /\ [][ConfigNext]_vars

(***************************************************************************)
(* get_branch_diff on a branch with or without an upstream, in any         *)
(* repository.                                                             *)
(***************************************************************************)
DiffInit ==
    /\ pc = "call"
    /\ call \in [fn : {"get_branch_diff"}, branch : {"b1"},
                 upstream : {NoneVal, "origin/main", "origin/dev"},
                 resolution : Resolutions, stat_ok : BOOLEAN,
                 diff_ok : BOOLEAN,
                 result : {[info |-> None, out |-> <<>>, queries |-> <<>>]}]
    /\ NotRunning

\* branch_info = get_branch_diff(branch, upstream): the result, the lines
\* printed, and the upstream-resolution queries sent to git.
CallGetBranchDiff ==
    /\ pc = "call"
    /\ call.fn = "get_branch_diff"
    /\ call' = [call EXCEPT !.result =
                    get_branch_diff(call.branch, call.upstream,
                                    call.resolution, call.stat_ok,
                                    call.diff_ok, TRUE, <<>>)]
    /\ branch_info' = call'.result.info
    /\ stdout' = stdout \o call'.result.out
    /\ pc' = "return"
    /\ UNCHANGED <<args, api_key, refs, ret, exit_code, stderr, config,
                   commit_message, attempt, gen_log, gen_calls, api_requests,
                   branches, scan_idx, scanned, results, selected_branch,
                   prompts, choice, confirm, temp_file, commits>>

DiffNext == CallGetBranchDiff

SpecDiff == DiffInit /\ [][DiffNext]_vars

(***************************************************************************)
(* get_staged_changes on any state of the index and of HEAD.               *)
(***************************************************************************)
\* What "branch --show-current" gives: it prints the branch name, prints
\* nothing and exits 0 on a detached HEAD, or fails.
CurrentBranches ==
    {run_git(TRUE, TRUE, n, "") : n \in BranchNames \cup {"main", ""}}
    \cup {run_git(TRUE, FALSE, "", "error")}

StagedInit ==
    /\ pc = "call"
    /\ call \in [fn : {"get_staged_changes"},
                 status : {"fail", "empty", "files"}, stat_ok : BOOLEAN,
                 diff_ok : BOOLEAN, current : CurrentBranches,
                 result : {None}]
    /\ NotRunning

\* branch_info = get_staged_changes(config)
CallGetStagedChanges ==
    /\ pc = "call"
    /\ call.fn = "get_staged_changes"
    /\ call' = [call EXCEPT !.result =
                    get_staged_changes(call.status, call.stat_ok,
                        call.diff_ok,
                        [ok |-> call.current.success,
                         out |-> call.current.output])]
    /\ branch_info' = call'.result
    /\ pc' = "return"
    /\ UNCHANGED <<args, api_key, refs, ret, exit_code, stdout, stderr,
                   config, commit_message, attempt, gen_log, gen_calls,
                   api_requests, branches, scan_idx, scanned, results,
                   selected_branch, prompts, choice, confirm, temp_file,
                   commits>>

StagedNext == CallGetStagedChanges

SpecStaged == StagedInit /\ [][StagedNext]_vars

(***************************************************************************)
(* The truncation of the collected diff, in both collectors, for any diff  *)
(* text and any max_diff_chars a settings file can hold.                   *)
(***************************************************************************)
MaxDiffLen == 4     \* longest diff text over two letters
MaxCap == 5         \* largest small cap

Repeat(c, n) == [i \in 1..n |-> c]

DiffTexts ==
    SeqsUpTo({"a", "b"}, MaxDiffLen)
    \cup {Repeat("x", n) : n \in {9, 10, 11, 102}}

Caps == (-2..MaxCap) \cup {9, 10, 100}

TruncateInit ==
    /\ pc = "call"
    /\ call \in [fn : {"get_branch_diff", "get_staged_changes"},
                 diff_content : DiffTexts, max_diff_chars : Caps,
                 result : {<<>>}]
    /\ NotRunning

CallTruncateBranch ==
    /\ pc = "call"
    /\ call.fn = "get_branch_diff"
    /\ call' = [call EXCEPT !.result =
                    TruncateBranchDiff(call.diff_content,
                                       call.max_diff_chars)]
    /\ pc' = "return"
    /\ UNCHANGED main_vars

CallTruncateStaged ==
    /\ pc = "call"
    /\ call.fn = "get_staged_changes"
    /\ call' = [call EXCEPT !.result =
                    TruncateStagedDiff(call.diff_content,
                                       call.max_diff_chars)]
    /\ pc' = "return"
    /\ UNCHANGED main_vars

TruncateNext ==
    \/ CallTruncateBranch
    \/ CallTruncateStaged

SpecTruncate == TruncateInit /\ [][TruncateNext]_vars

(***************************************************************************)
(* parse_tracking_info on the texts git prints for any distance from the   *)
(* upstream, in either order, and on texts that hold no count.             *)
(***************************************************************************)
MaxCount == 3       \* largest small commit count

Counts == (0..MaxCount) \cup {10, 25, 120}

\* Distances from the upstream: level, one side only, or both in either
\* order.
Distances ==
    {<<>>}
    \cup {<<Tok(w, n)>> : w \in {"ahead", "behind"}, n \in Counts}
    \cup {<<Tok("ahead", n), Tok("behind", m)>> : n \in Counts, m \in Counts}
    \cup {<<Tok("behind", m), Tok("ahead", n)>> : n \in Counts, m \in Counts}

\* Texts without "ahead N" and without "behind M".
MalformedTracks ==
    {<<"[", "]">>,
     <<"[", "g", "o", "n", "e", "]">>,
     <<"[", "a", "h", "e", "a", "d", "]">>,
     <<"[", "a", "h", "e", "a", "d", " ", "x", "]">>,
     <<"[", "a", "h", "e", "a", "d", " ", ",", " ", "b", "e", "h", "i", "n",
       "d", " ", "]">>,
     <<"a", "h", "e", "a", "d">>,
     <<"[", "A", "h", "e", "a", "d", " ", "3", "]">>,
     <<"[", "a", "h", "e", "a", "d", " ", " ", "3", "]">>,
     <<"[", "a", "h", "e", "a", "d", "-", "3", "]">>,
     <<"[", "a", "h", "e", "a", "d", " ", "-", "3", "]">>,
     <<"3", " ", "a", "h", "e", "a", "d">>,
     <<"[", "b", "e", "h", "i", "n", "d", "]">>}

TrackInit ==
    /\ pc = "call"
    /\ call \in
        {[fn |-> "parse_tracking_info", distance |-> t,
          track_info |-> TrackText(t),
          result |-> [ahead |-> 0, behind |-> 0]] :
            t \in Distances}
        \cup {[fn |-> "parse_tracking_info", distance |-> <<>>,
               track_info |-> m, result |-> [ahead |-> 0, behind |-> 0]] :
                m \in MalformedTracks}
    /\ NotRunning

\* ahead, behind = parse_tracking_info(track_info)
CallParseTrackingInfo ==
    /\ pc = "call"
    /\ call.fn = "parse_tracking_info"
    /\ call' = [call EXCEPT !.result = parse_tracking_info(call.track_info)]
    /\ pc' = "return"
    /\ UNCHANGED main_vars

TrackNext == CallParseTrackingInfo

SpecTrack == TrackInit /\ [][TrackNext]_vars

(***************************************************************************)
(* The statistics parsed from the text of diff --stat, in both collectors, *)
(* for any summary line: each of its three parts present or not.           *)
(***************************************************************************)
Absent == -1

\* One part of the summary line as git words it: "1 file changed",
\* "2 files changed", "1 insertion(+)", "0 deletions(-)".
StatPart(n, singular, after) ==
    Str(n) \o <<" ">> \o singular \o (IF n = 1 THEN <<>> ELSE <<"s">>)
    \o after

RECURSIVE JoinParts(_)
JoinParts(parts) ==
    IF parts = <<>> THEN <<>>
    ELSE Head(parts) \o (IF Tail(parts) = <<>> THEN <<>>
                         ELSE <<",", " ">> \o JoinParts(Tail(parts)))

\* The output of diff --stat: the lines of the files, then the summary.
StatText(summary, file_lines) ==
    LET Present(p) == p # <<>>
        parts == SelectSeq(
            <<IF summary.files = Absent THEN <<>>
              ELSE StatPart(summary.files, <<"f", "i", "l", "e">>,
                            <<" ", "c", "h", "a", "n", "g", "e", "d">>),
              IF summary.insertions = Absent THEN <<>>
              ELSE StatPart(summary.insertions,
                            <<"i", "n", "s", "e", "r", "t", "i", "o", "n">>,
                            <<"(", "+", ")">>),
              IF summary.deletions = Absent THEN <<>>
              ELSE StatPart(summary.deletions,
                            <<"d", "e", "l", "e", "t", "i", "o", "n">>,
                            <<"(", "-", ")">>)>>,
            Present)
    IN (IF file_lines
        THEN <<"f", " ", "|", " ", "2", " ", "+", "-", "\n", " ">>
        ELSE <<>>)
       \o JoinParts(parts)

Summaries ==
    [files : Counts \cup {Absent}, insertions : Counts \cup {Absent},
     deletions : Counts \cup {Absent}]

StatsInit ==
    /\ pc = "call"
    /\ call \in
        {[fn |-> f, summary |-> m, diff_stat |-> StatText(m, l),
          result |-> [files_changed |-> 0, insertions |-> 0,
                      deletions |-> 0]] :
            f \in {"get_branch_diff", "get_staged_changes"},
            m \in Summaries, l \in BOOLEAN}
    /\ NotRunning

CallBranchStats ==
    /\ pc = "call"
    /\ call.fn = "get_branch_diff"
    /\ call' = [call EXCEPT !.result = ParseBranchStats(call.diff_stat)]
    /\ pc' = "return"
    /\ UNCHANGED main_vars

CallStagedStats ==
    /\ pc = "call"
    /\ call.fn = "get_staged_changes"
    /\ call' = [call EXCEPT !.result = ParseStagedStats(call.diff_stat)]
    /\ pc' = "return"
    /\ UNCHANGED main_vars

StatsNext ==
    \/ CallBranchStats
    \/ CallStagedStats

SpecStats == StatsInit /\ [][StatsNext]_vars

(***************************************************************************)
(* generate_commit_message called once, with any max_retries a settings    *)
(* file can hold.  The call keeps running until it returns: a request      *)
(* comes back or raises, and a sleep ends.                                 *)
(***************************************************************************)
GenInit ==
    /\ pc = "gen_key"
    /\ call = [fn |-> "generate_commit_message"]
    /\ args = [staged |-> FALSE, branch |-> NoneVal, auto_commit |-> FALSE,
               json |-> FALSE]
    /\ api_key = Unread
    /\ refs = <<>>
    /\ ret = "return"
    /\ exit_code = Running
    /\ stdout = <<>>
    /\ stderr = <<>>
    /\ config \in {[DEFAULT_CONFIG EXCEPT !.max_retries = n] :
                    n \in (-1)..(MaxRetryOverride + 1)}
    /\ branch_info = Some(BranchInfo("b1", "origin/main", 1, 0))
    /\ commit_message = None
    /\ attempt = 0
    /\ gen_log = <<>>
    /\ gen_calls = 1
    /\ api_requests = 0
    /\ branches = <<>>
    /\ scan_idx = 1
    /\ scanned = <<>>
    /\ results = <<>>
    /\ selected_branch = NoneVal
    /\ prompts = 0
    /\ choice = <<>>
    /\ confirm = None
    /\ temp_file = [created |-> FALSE, exists |-> FALSE, content |-> <<>>]
    /\ commits = <<>>

GenNext ==
    \/ GenCheckKey
    \/ GenRequest
    \/ GenLoopEnd

SpecGen == GenInit /\ [][GenNext]_vars /\ WF_vars(GenNext)

(***************************************************************************)
(* Properties.                                                             *)
(***************************************************************************)
\* C1: a rate-limited request is followed by another one while attempts
\* remain (at most max_retries requests per call); the sleep after the
\* rate-limited attempt number a is 2^a seconds; a rate limit on the last
\* permitted attempt is not slept on, is reported as an error, and the call
\* returns None.
C1_RateLimitBackoff ==
    /\ Len(gen_log) <= config.max_retries \/ gen_log = <<>>
    /\ \A i \in 1..Len(gen_log) :
        /\ gen_log[i].attempt = i - 1
        /\ gen_log[i].outcome = "rate_limit" =>
            IF i < config.max_retries
            THEN /\ gen_log[i].wait = 2 ^ (i - 1)
                 /\ i < Len(gen_log) \/ pc = "gen_loop"
            ELSE /\ gen_log[i].wait = 0
                 /\ i = Len(gen_log)
                 /\ pc \notin {"gen_key", "gen_loop"}
                 /\ commit_message = None
                 /\ pc = ret => stdout[Len(stdout)] = "error"

C1_Witness ==
    /\ pc = ret
    /\ Len(gen_log) = 3
    /\ \A i \in 1..3 : gen_log[i].outcome = "rate_limit"
    /\ gen_log[1].wait = 1
    /\ gen_log[2].wait = 2
    /\ gen_log[3].wait = 0
    /\ commit_message = None

\* C2: an API error other than a rate limit, or an unexpected exception,
\* ends the call on the attempt it happens on: it is the last request of
\* the call, nothing is slept, and the call returns None.
C2_OtherErrorsEndCall ==
    \A i \in 1..Len(gen_log) :
        gen_log[i].outcome \in {"api_error", "exception"} =>
            /\ i = Len(gen_log)
            /\ gen_log[i].wait = 0
            /\ pc \notin {"gen_key", "gen_loop"}
            /\ commit_message = None

C2_Witness ==
    /\ pc = ret
    /\ Len(gen_log) = 2
    /\ gen_log[1].outcome = "rate_limit"
    /\ gen_log[2].outcome = "api_error"
    /\ api_requests = 2
    /\ commit_message = None

\* C3: a run that reaches message generation without a usable
\* ANTHROPIC_API_KEY makes no API request and ends with exit code 1.
C3_MissingKeyExitsOne ==
    (pc = "done" /\ gen_calls > 0 /\ api_key \in {"absent", "empty"}) =>
        (api_requests = 0 /\ exit_code = 1)

\* C4: a run given both --auto-commit and --json ends with a non-zero exit
\* code and creates no commit, whatever the mode.
C4_AutoCommitJsonRejected ==
    (pc = "done" /\ args.auto_commit /\ args.json) =>
        (exit_code # 0 /\ commits = <<>>)

\* C5: with --branch, a branch that is not among the local branches ends
\* the run with a non-zero exit code; the run ends with exit code 0 without
\* generating only when the branch exists and is zero commits ahead; the
\* API is not called in either case.
C5_MissingBranchFails ==
    (pc = "done" /\ ~args.staged /\ args.branch # NoneVal) =>
        LET hits == {i \in 1..Len(refs) : refs[i].name = args.branch}
            ahead == \E i \in hits : \E k \in 1..Len(refs[i].track) :
                        /\ refs[i].track[k].word = "ahead"
                        /\ refs[i].track[k].num > 0
        IN /\ hits = {} => (exit_code # 0 /\ api_requests = 0)
           /\ (exit_code = 0 /\ gen_calls = 0) =>
                (hits # {} /\ ~ahead /\ api_requests = 0)

\* C6: the JSON scan hands every branch that is ahead to the collector, in
\* listing order, whatever happened to the earlier ones; the result list
\* holds, in that order, exactly the branches whose collection and
\* generation both succeeded; a run that started the loop finishes it and
\* emits the document.
C6_JsonScanAllBranches ==
    (~args.staged /\ args.branch = NoneVal /\ args.json) =>
        LET Ahead(r) == \E k \in 1..Len(r.track) :
                            r.track[k].word = "ahead" /\ r.track[k].num > 0
            expected == SelectSeq(refs, Ahead)
            Ok(x) == x.collected /\ x.generated
            good == SelectSeq(scanned, Ok)
        IN /\ Len(scanned) <= Len(expected)
           /\ \A i \in 1..Len(scanned) : scanned[i].name = expected[i].name
           /\ Len(results) = Len(good)
           /\ \A i \in 1..Len(results) : results[i].branch = good[i].name
           /\ (pc = "done" /\ scanned # <<>>) =>
                /\ Len(scanned) = Len(expected)
                /\ stdout[Len(stdout)] = "json"
                /\ exit_code = 0

C6_Witness ==
    /\ pc = "done"
    /\ args.json
    /\ Len(scanned) = 2
    /\ scanned[1].collected /\ ~scanned[1].generated
    /\ scanned[2].collected /\ scanned[2].generated
    /\ Len(results) = 1
    /\ results[1].branch = "b2"

\* C7: with --json, what a finished run has written to standard output is
\* exactly one JSON document and nothing else.
C7_JsonSingleDocument ==
    (pc = "done" /\ args.json) => stdout = <<"json">>

\* C8: once the temporary commit-message file was created, it no longer
\* exists when the process has ended.
C8_TempFileRemoved ==
    (pc = "done" /\ temp_file.created) => ~temp_file.exists

\* C9: a commit is authored only in staged mode with --auto-commit, after a
\* message was generated and the prompt was answered y (trimmed, in either
\* case), and its text is the generated message; an answer of y that ends
\* the run with exit code 0 has produced the commit; any other answer
\* creates no commit and exits 0; a failed commit exits 1.
C9_CommitOnlyOnYes ==
    LET Yes == {<<"y">>, <<"Y">>, <<" ", "y", " ">>, <<"Y", " ">>}
    IN /\ commits # <<>> =>
            /\ args.staged /\ args.auto_commit
            /\ ~Falsy(commit_message)
            /\ confirm # None
            /\ confirm[1].raw \in Yes
            /\ commits = <<commit_message[1]>>
       /\ (pc = "done" /\ confirm # None) =>
            IF confirm[1].raw \in Yes
            THEN exit_code = 0 <=> commits # <<>>
            ELSE commits = <<>> /\ exit_code = 0
       /\ (pc = "done" /\ temp_file.created /\ ~temp_file.exists
             /\ commits = <<>> /\ exit_code # ExitInterrupt) =>
            exit_code = 1

C9_Witness ==
    /\ pc = "done"
    /\ confirm # None
    /\ confirm[1].raw = <<"Y", " ">>
    /\ commits = << <<"g">> >>
    /\ exit_code = 0

\* C10: interactive_select_branch returns only on an input that denotes 0
\* (None), on an interrupt (None), or on a number k between 1 and the
\* length of the list (the name of the k-th branch), and it returns at the
\* first such input; any other input leaves the selection and the list as
\* they were and prompts again; an empty list returns None with no prompt.
C10_SelectReturns ==
    [][LET Zero == {<<"0">>, <<" ", "0", " ">>, <<"-", "0">>, <<"0", "0">>}
           K(c) == IF c \in {<<"1">>, <<" ", "1">>, <<"0", "1">>,
                             <<"+", "1">>}
                   THEN 1
                   ELSE IF c \in {<<"2">>, <<"2", " ">>} THEN 2
                   ELSE IF c = <<"3">> THEN 3 ELSE 0
           Deciding(c) == \/ c \in Zero
                          \/ c = <<"^C">>
                          \/ (1 <= K(c) /\ K(c) <= Len(branches))
       IN /\ (pc = "select_enter" /\ branches = <<>>) =>
                /\ pc' = "select_ret"
                /\ selected_branch' = NoneVal
                /\ UNCHANGED <<prompts, choice, stdout>>
          /\ (pc = "select_enter" /\ branches # <<>>) => pc' = "select"
          /\ pc = "select" =>
                /\ choice' \in Choices \cup {<<"^C">>, <<"^D">>}
                /\ pc' = "select_ret" <=> Deciding(choice')
                /\ pc' = "select_ret" =>
                    IF 1 <= K(choice') /\ K(choice') <= Len(branches)
                    THEN selected_branch' = branches[K(choice')].name
                    ELSE selected_branch' = NoneVal
                /\ (~Deciding(choice') /\ choice' # <<"^D">>) =>
                    /\ pc' = "select"
                    /\ prompts' = prompts + 1
                    /\ UNCHANGED <<selected_branch, branches, exit_code>>
      ]_vars

C10_Witness ==
    /\ pc = "select_ret"
    /\ prompts = 2
    /\ choice = <<"2", " ">>
    /\ selected_branch = "b2"
    /\ Len(branches) = 2

\* C11: load_config applies at most one settings file: the repository-root
\* file when it is found, and the home-directory file only when the
\* repository-root file is absent or unparseable; the applied file's
\* top-level keys overlay the defaults, and with no usable file or without
\* the parser the result is exactly the defaults.
C11_FirstFoundWins ==
    (call.fn = "load_config" /\ pc = "return") =>
        LET repo == IF call.repo_root THEN call.repo_file.state
                    ELSE "absent"
            applied ==
                IF ~call.yaml_available THEN None
                ELSE IF repo = "dict" THEN Some(call.repo_file)
                ELSE IF repo \in {"absent", "bad"}
                        /\ call.home_file.state = "dict"
                THEN Some(call.home_file)
                ELSE None
        IN \A k \in DOMAIN DEFAULT_CONFIG :
            call.result.config[k] =
                IF applied # None /\ k \in applied[1].keys
                THEN applied[1][k] ELSE DEFAULT_CONFIG[k]

\* C12: get_branch_diff without an upstream uses the remote's symbolic
\* default branch when that reference resolves, otherwise the first of
\* origin/main, origin/master, main, master that resolves; it warns and
\* returns None for want of an upstream only when nothing resolves; with an
\* upstream supplied it makes none of these queries.
C12_UpstreamResolution ==
    (call.fn = "get_branch_diff" /\ pc = "return") =>
        LET r == call.resolution
            first == CHOOSE i \in r.resolves : \A j \in r.resolves : i <= j
            expected == IF call.upstream # NoneVal THEN call.upstream
                        ELSE IF r.symbolic THEN "origin/main"
                        ELSE IF r.resolves # {}
                        THEN <<"origin/main", "origin/master", "main",
                               "master">>[first]
                        ELSE NoneVal
        IN /\ call.upstream # NoneVal => call.result.queries = <<>>
           /\ call.result.out = <<"warning">> <=> expected = NoneVal
           /\ call.result.info # None =>
                call.result.info[1].upstream = expected
           /\ (expected # NoneVal /\ call.stat_ok /\ call.diff_ok) =>
                call.result.info # None

\* C13: get_staged_changes returns None when nothing is staged; a record
\* it returns has upstream None, ahead 0 and behind 0, and its name is the
\* current branch, or "HEAD" when the branch query names no branch
\* (detached HEAD), so the name is never empty.
C13_StagedRecord ==
    (call.fn = "get_staged_changes" /\ pc = "return") =>
        /\ call.status = "empty" => call.result = None
        /\ call.result # None =>
            LET b == call.result[1]
                named == call.current.success /\ call.current.output # ""
            IN /\ b.upstream = NoneVal
               /\ b.ahead = 0
               /\ b.behind = 0
               /\ b.name = IF named THEN call.current.output ELSE "HEAD"
               /\ b.name # ""

\* C14: for every diff text d and cap c the collected content is d itself
\* when len(d) <= c; when len(d) > c it is the first c characters of d
\* followed by the annotation, which holds the word "Truncated" and len(d)
\* in decimal, so the content is longer than c.
C14_Truncation ==
    (call.fn \in {"get_branch_diff", "get_staged_changes"}
        /\ pc = "return") =>
        LET d == call.diff_content
            c == call.max_diff_chars
            r == call.result
            kept == IF c > 0 THEN c ELSE 0
            Contains(s, w) ==
                \E i \in 1..(Len(s) - Len(w) + 1) :
                    SubSeq(s, i, i + Len(w) - 1) = w
            word == <<"T", "r", "u", "n", "c", "a", "t", "e", "d">>
        IN IF Len(d) <= c THEN r = d
           ELSE /\ Len(r) > c
                /\ Len(r) > kept + 2
                /\ SubSeq(r, 1, kept) = SubSeq(d, 1, kept)
                /\ SubSeq(r, kept + 1, kept + 2) = <<"\n", "\n">>
                /\ Contains(SubSeq(r, kept + 1, Len(r)), word)
                /\ Contains(SubSeq(r, kept + 1, Len(r)), Str(Len(d)))

\* C15: parse_tracking_info returns exactly (N, M) for a text that holds
\* "ahead N" and/or "behind M" in either order, with 0 for a side that is
\* absent, and (0, 0) for an empty, bracket-only or malformed text.
C15_TrackingCounts ==
    (call.fn = "parse_tracking_info" /\ pc = "return") =>
        LET Count(w) ==
                IF \E k \in 1..Len(call.distance) : call.distance[k].word = w
                THEN call.distance[CHOOSE k \in 1..Len(call.distance) :
                                       call.distance[k].word = w].num
                ELSE 0
        IN /\ call.result.ahead = Count("ahead")
           /\ call.result.behind = Count("behind")

C15_Witness ==
    /\ call.fn = "parse_tracking_info"
    /\ pc = "return"
    /\ call.track_info = <<"[", "b", "e", "h", "i", "n", "d", " ", "2", "5",
                           ",", " ", "a", "h", "e", "a", "d", " ", "1", "2",
                           "0", "]">>
    /\ call.result = [ahead |-> 120, behind |-> 25]

\* C16: each of the three statistics is the number of its own part of the
\* summary when that part is present and 0 when it is absent, whatever the
\* other two parts are; an empty text gives 0, 0, 0; get_branch_diff and
\* get_staged_changes give the same three values for the same text.
C16_FileStatistics ==
    (call.fn \in {"get_branch_diff", "get_staged_changes"}
        /\ pc = "return") =>
        LET Value(n) == IF n = -1 THEN 0 ELSE n
        IN /\ call.result.files_changed = Value(call.summary.files)
           /\ call.result.insertions = Value(call.summary.insertions)
           /\ call.result.deletions = Value(call.summary.deletions)

C16_Witness ==
    /\ call.fn = "get_staged_changes"
    /\ pc = "return"
    /\ call.diff_stat = <<"f", " ", "|", " ", "2", " ", "+", "-", "\n", " ",
                          "1", " ", "f", "i", "l", "e", " ", "c", "h", "a",
                          "n", "g", "e", "d", ",", " ", "1", "2", "0", " ",
                          "d", "e", "l", "e", "t", "i", "o", "n", "s", "(",
                          "-", ")">>
    /\ call.result = [files_changed |-> 1, insertions |-> 0,
                      deletions |-> 120]

\* C17: a Config built from DEFAULT_CONFIG has max_diff_chars 50000, model
\* "claude-3-5-sonnet-20241022", temperature 0.7, max_retries 3, and a
\* commit_types list that holds "feat" and "fix".
C17_DefaultConfig ==
    (call.fn = "load_config" /\ pc = "return" /\ ~call.yaml_available) =>
        LET c == call.result.config
        IN /\ c.max_diff_chars = 50000
           /\ c.model = "claude-3-5-sonnet-20241022"
           /\ c.temperature.num * 10 = 7 * c.temperature.den
           /\ c.max_retries = 3
           /\ \E i \in 1..Len(c.commit_types) : c.commit_types[i] = "feat"
           /\ \E i \in 1..Len(c.commit_types) : c.commit_types[i] = "fix"

\* C18: one call of generate_commit_message returns, after at most
\* max_retries API requests (none for max_retries <= 0) whatever the
\* outcomes; a response with empty content is not slept on and is followed
\* by the next request while attempts remain; a call whose attempts are
\* used up by empty responses, or that has max_retries <= 0, returns None.
C18_CallTerminates ==
    /\ [](LET m == config.max_retries
              limit == IF m > 0 THEN m ELSE 0
          IN /\ api_requests <= limit
             /\ Len(gen_log) = api_requests
             /\ \A i \in 1..Len(gen_log) :
                    gen_log[i].outcome = "empty_content" =>
                        /\ gen_log[i].wait = 0
                        /\ i < limit => (i < Len(gen_log) \/ pc = "gen_loop")
             /\ (/\ pc = "return"
                 /\ \/ m <= 0
                    \/ /\ Len(gen_log) = limit
                       /\ gen_log[limit].outcome = "empty_content")
                    => commit_message = None)
    /\ <>(pc = "return")

C18_Witness ==
    /\ pc = "return"
    /\ call.fn = "generate_commit_message"
    /\ config.max_retries = 3
    /\ Len(gen_log) = 3
    /\ gen_log[1].outcome = "rate_limit"
    /\ \A i \in 2..3 : gen_log[i].outcome = "empty_content"
    /\ api_requests = 3
    /\ commit_message = None

====
